---- MODULE Spec2Model ----
(***************************************************************************)
(* Stratify G-code analyzer: the job pipeline of the API service           *)
(* (server.ts: GCodeAnalyzerAPI, analysisService.ts: AnalysisService,      *)
(* databaseService.ts: DatabaseService, cacheService.ts: CacheService),    *)
(* the websocket server (server-websocket.js) and the comparison service   *)
(* (comparisonService.ts).                                                 *)
(*                                                                         *)
(* Node runs every handler to its next await: one action is one handler    *)
(* (or one continuation) run from the event loop.                          *)
(***************************************************************************)
EXTENDS Integers, Sequences, FiniteSets, TLC

(***************************** bounds ***************************************)
\* uploads accepted by a server during one run
MaxJobs == 2
\* file paths handed to one ComparisonService.compare call
MaxFiles == 3

\* longest line drawn character by character
MaxLineLen == 4

\* most parameters of a written command
MaxParams == 3

\* most lines of a command stream
MaxStream == 4

(***************************** program constants ****************************)
ProgressStart == 10
ProgressStep == 10
ProgressCap == 90
ProgressDone == 100

Null == "null"

VARIABLES
    server,          \* which entry point runs: "ts" (server.ts) or "ws" (server-websocket.js)
    jobs,            \* analysis id issued by the upload endpoint -> state of its background task
    processingJobs,  \* AnalysisService.processingJobs of the API's AnalysisService
    db,              \* table analyses: id -> row
    cache,           \* redis: key -> cached value
    room,            \* what the server emitted to room analysis-<id>
    files,           \* files present under uploads/
    req,             \* the client request in flight (request-update, GET /api/analysis/:id)
    analysisCache,   \* global.analysisCache of the websocket server
    cmp,             \* one ComparisonService.compare call
    call,            \* one call of a function of the services or utilities: arguments and return value
    client           \* the dashboard (App, apiService) in one upload session, and its socket

vars == <<server, jobs, processingJobs, db, cache, room, files, req, analysisCache, cmp, call,
          client>>

(***************************** finite maps **********************************)
Empty == <<>>

Put(f, k, v) == [x \in DOMAIN f \cup {k} |-> IF x = k THEN v ELSE f[x]]

Remove(f, k) == [x \in DOMAIN f \ {k} |-> f[x]]

Min(a, b) == IF a < b THEN a ELSE b

(***************************** identifiers **********************************)
\* generateAnalysisId: `analysis_${Date.now()}_${random}`; every call returns a
\* string no other call returned. The k-th id of the upload endpoint:
ApiId(k) == <<"api", k>>

\* the id AnalysisService.analyze generates for the job started under X
SvcId(X) == <<"svc", X[2]>>

ApiIds == {ApiId(k) : k \in 1..MaxJobs}

\* multer's req.file.path of the upload that got id X
FilePath(X) == <<"uploads", X[2]>>

(***************************** rooms ****************************************)
\* The events of one room: the last progress value, how many 'complete' and
\* 'error' events, the last error message, how many 'progress' events were
\* emitted after a 'complete' or 'error' (late), and how many carried a value
\* below the one before (down).
NoEvents == [last |-> -1, complete |-> 0, error |-> 0, msg |-> Null, late |-> 0, down |-> 0]

EmitProgress(r, p) ==
    [r EXCEPT !.last = p,
              !.late = IF r.complete + r.error > 0 THEN @ + 1 ELSE @,
              !.down = IF p < r.last THEN @ + 1 ELSE @]

EmitComplete(r) == [r EXCEPT !.complete = @ + 1]

EmitError(r, m) == [r EXCEPT !.error = @ + 1, !.msg = m]

(***************************** AnalysisResult *******************************)
\* What the parser script prints for the file of job X and JSON.parse returns:
\* id is the id analyze generated, status is the literal 'complete'
\* (analysisService.ts, the script's result dict).
ParserResult(X) ==
    [id |-> SvcId(X), filepath |-> FilePath(X), status |-> "complete",
     data |-> <<"parsed", X[2]>>]

(***************************** DatabaseService ******************************)
\* saveAnalysis: INSERT ... ON CONFLICT (id) DO UPDATE SET status, metadata,
\* profile, geometry, layers, suggestions (filepath, timestamp and
\* error_message of an existing row are kept).
DbSave(d, id, r) ==
    IF id \in DOMAIN d
    THEN [d EXCEPT ![id] = [@ EXCEPT !.status = r.status, !.data = r.data]]
    ELSE Put(d, id, [id |-> id, filepath |-> r.filepath, status |-> r.status,
                     data |-> r.data, error |-> Null])

\* updateAnalysisStatus: UPDATE analyses SET status = $2, error_message = $3
\* WHERE id = $1, with $3 = error || null.
DbUpdateStatus(d, id, status, err) ==
    IF id \in DOMAIN d
    THEN [d EXCEPT ![id] = [@ EXCEPT !.status = status, !.error = err]]
    ELSE d

(***************************** AnalysisService ******************************)
\* faulty variant of NextProgress: the bar wraps around at the cap
NextProgress_wraps(p) ==
    IF p + ProgressStep > ProgressCap THEN ProgressStart ELSE p + ProgressStep

\* progress = Math.min(progress + 10, 90)
NextProgress(p) == Min(p + ProgressStep, ProgressCap)

\* faulty variant of ClearInterval: the close handler leaves the interval running
ClearInterval_skipped(job) == job

\* clearInterval(progressInterval): the timer and the `progress` it captured are gone
ClearInterval(job) == [job EXCEPT !.timer = {}]

\* faulty variant of TrackerDelete: the whole map is cleared
TrackerDelete_all(pj, Y) == Empty

\* this.processingJobs.delete(analysisId)
TrackerDelete(pj, Y) == Remove(pj, Y)

\* isProcessing: this.processingJobs.get(analysisId) || null, as a set of at most one record
IsProcessing(id) ==
    IF id \in DOMAIN processingJobs THEN {processingJobs[id]} ELSE {}

(***************************** server.ts: the job pipeline ******************)
NewJob == [pc |-> "queued", inner |-> {}, timer |-> {}, child |-> "none", completeDue |-> FALSE]

\* POST /api/analyze/upload: multer has stored the file, the handler draws an
\* analysis id, calls startAsyncAnalysis (which only queues the setImmediate
\* callback) and answers with the id.
Upload ==
    /\ server = "ts"
    /\ Cardinality(DOMAIN jobs) < MaxJobs
    /\ LET X == ApiId(Cardinality(DOMAIN jobs) + 1) IN
         /\ jobs' = Put(jobs, X, NewJob)
         /\ room' = Put(room, X, NoEvents)
         /\ files' = files \cup {FilePath(X)}
    /\ UNCHANGED <<server, client, call, processingJobs, db, cache, req, analysisCache, cmp>>

\* The setImmediate callback up to `await analysisService.analyze(...)`:
\* analyze draws its own id, records {progress: 0, stage: 'starting'} under
\* it, spawns the parser and starts the interval with progress = 10.
AnalyzeStart(X) ==
    /\ server = "ts"
    /\ X \in DOMAIN jobs
    /\ jobs[X].pc = "queued"
    /\ jobs' = [jobs EXCEPT ![X] = [@ EXCEPT !.pc = "running", !.inner = {SvcId(X)},
                                             !.timer = {ProgressStart}, !.child = "running"]]
    /\ processingJobs' = Put(processingJobs, SvcId(X), [progress |-> 0, stage |-> "starting"])
    /\ UNCHANGED <<server, client, call, db, cache, room, files, req, analysisCache, cmp>>

\* The setInterval callback.
Tick(X) ==
    /\ server = "ts"
    /\ X \in DOMAIN jobs
    /\ \E p \in jobs[X].timer, Y \in jobs[X].inner :
         LET q == NextProgress(p) IN
         /\ jobs' = [jobs EXCEPT ![X].timer = {q}]
         /\ processingJobs' = Put(processingJobs, Y, [progress |-> q, stage |-> "analyzing"])
         /\ room' = [room EXCEPT ![X] = EmitProgress(@, q)]
    /\ UNCHANGED <<server, client, call, db, cache, files, req, analysisCache, cmp>>

\* The parser process stops making progress and never exits (a pathological
\* input): from then on it emits no 'close'.
ParserHangs(X) ==
    /\ server = "ts"
    /\ X \in DOMAIN jobs
    /\ jobs[X].child = "running"
    /\ jobs' = [jobs EXCEPT ![X].child = "hung"]
    /\ UNCHANGED <<server, client, call, processingJobs, db, cache, room, files, req, analysisCache, cmp>>

CloseOutcomes == {"ok", "badjson", "exit"}

\* child.on('close'), and the continuation of startAsyncAnalysis that runs in
\* the same turn: on success progressCallback(100), resolve, and saveAnalysis
\* is called (it awaits the pool); on failure reject, and the catch block
\* emits 'error'.
ParserClose(X, outcome) ==
    /\ server = "ts"
    /\ X \in DOMAIN jobs
    /\ jobs[X].child = "running"
    /\ LET job == ClearInterval(jobs[X])
           Y == SvcId(X) IN
         /\ processingJobs' = TrackerDelete(processingJobs, Y)
         /\ IF outcome = "ok"
            THEN /\ jobs' = [jobs EXCEPT ![X] = [job EXCEPT !.child = "exited", !.pc = "saving"]]
                 /\ room' = [room EXCEPT ![X] = EmitProgress(@, ProgressDone)]
            ELSE /\ jobs' = [jobs EXCEPT ![X] = [job EXCEPT !.child = "exited", !.pc = "done"]]
                 /\ room' = [room EXCEPT ![X] =
                        EmitError(@, IF outcome = "badjson"
                                     THEN "Failed to parse Python output"
                                     ELSE "Python analysis failed")]
    /\ UNCHANGED <<server, client, call, db, cache, files, req, analysisCache, cmp>>

\* faulty variant of SaveAnalysis: the failure is raised after the row went in
SaveAnalysis_rowWritten(X, ok) ==
    /\ server = "ts"
    /\ X \in DOMAIN jobs
    /\ jobs[X].pc = "saving"
    /\ db' = DbSave(db, X, ParserResult(X))
    /\ IF ok
       THEN /\ jobs' = [jobs EXCEPT ![X].pc = "caching"]
            /\ room' = room
       ELSE /\ jobs' = [jobs EXCEPT ![X].pc = "done"]
            /\ room' = [room EXCEPT ![X] = EmitError(@, "Failed to save analysis")]
    /\ UNCHANGED <<server, client, call, processingJobs, cache, files, req, analysisCache, cmp>>

\* faulty variant of SaveAnalysis: the save is not awaited, the row is never written
SaveAnalysis_notWritten(X, ok) ==
    /\ server = "ts"
    /\ X \in DOMAIN jobs
    /\ jobs[X].pc = "saving"
    /\ db' = db
    /\ jobs' = [jobs EXCEPT ![X].pc = "caching"]
    /\ UNCHANGED <<server, client, call, processingJobs, cache, room, files, req, analysisCache, cmp>>

\* databaseService.saveAnalysis(analysisId, result) returns or throws; when it
\* throws the row is not written and the catch block emits 'error'.
SaveAnalysis(X, ok) ==
    /\ server = "ts"
    /\ X \in DOMAIN jobs
    /\ jobs[X].pc = "saving"
    /\ IF ok
       THEN /\ db' = DbSave(db, X, ParserResult(X))
            /\ jobs' = [jobs EXCEPT ![X].pc = "caching"]
            /\ room' = room
       ELSE /\ db' = db
            /\ jobs' = [jobs EXCEPT ![X].pc = "done"]
            /\ room' = [room EXCEPT ![X] = EmitError(@, "Failed to save analysis")]
    /\ UNCHANGED <<server, client, call, processingJobs, cache, files, req, analysisCache, cmp>>

\* cacheService.set(analysisId, result, 3600) returns (a redis failure is
\* logged and swallowed), then 'complete' is emitted and fs.unlink is called.
CacheSet(X, ok) ==
    /\ server = "ts"
    /\ X \in DOMAIN jobs
    /\ jobs[X].pc = "caching"
    /\ cache' = IF ok THEN Put(cache, X, ParserResult(X)) ELSE cache
    /\ room' = [room EXCEPT ![X] = EmitComplete(@)]
    /\ jobs' = [jobs EXCEPT ![X].pc = "unlinking"]
    /\ UNCHANGED <<server, client, call, processingJobs, db, files, req, analysisCache, cmp>>

\* faulty variant of Unlink: a failed unlink is not caught and reaches the catch block
Unlink_uncaught(X, ok) ==
    /\ server = "ts"
    /\ X \in DOMAIN jobs
    /\ jobs[X].pc = "unlinking"
    /\ files' = IF ok THEN files \ {FilePath(X)} ELSE files
    /\ room' = IF ok THEN room ELSE [room EXCEPT ![X] = EmitError(@, "unlink failed")]
    /\ jobs' = [jobs EXCEPT ![X].pc = "done"]
    /\ UNCHANGED <<server, client, call, processingJobs, db, cache, req, analysisCache, cmp>>

\* fs.unlink(filepath).catch(() => {}) settles: the file is removed, or the
\* failure is ignored.
Unlink(X, ok) ==
    /\ server = "ts"
    /\ X \in DOMAIN jobs
    /\ jobs[X].pc = "unlinking"
    /\ files' = IF ok THEN files \ {FilePath(X)} ELSE files
    /\ jobs' = [jobs EXCEPT ![X].pc = "done"]
    /\ UNCHANGED <<server, client, call, processingJobs, db, cache, room, req, analysisCache, cmp>>

(***************************** server.ts: client requests *******************)
NoId == <<"none", 0>>

\* No request in flight. A request holds the row it read between the database
\* reply and the cache write of GET /api/analysis/:id.
Idle == [kind |-> "none", id |-> NoId, pc |-> "idle", row |-> {}]

\* getAnalysisStatus once the database answered: a row (whatever its status)
\* gives 'complete', else the tracker is asked, else 'not_found'.
GetAnalysisStatus(id) ==
    IF id \in DOMAIN db
    THEN [status |-> "complete", progress |-> -1, result |-> {db[id]}]
    ELSE IF IsProcessing(id) # {}
         THEN [status |-> "processing",
               progress |-> (CHOOSE r \in IsProcessing(id) : TRUE).progress,
               result |-> {}]
         ELSE [status |-> "not_found", progress |-> -1, result |-> {}]

\* socket.on('request-update', analysisId): getAnalysisStatus sends its query.
RequestUpdate(id) ==
    /\ server = "ts"
    /\ req.pc = "idle"
    /\ id \in DOMAIN jobs
    /\ req' = [Idle EXCEPT !.kind = "status", !.id = id, !.pc = "db"]
    /\ UNCHANGED <<server, client, call, jobs, processingJobs, db, cache, room, files, analysisCache, cmp>>

\* The query returns; the rest of getAnalysisStatus runs and its value,
\* GetAnalysisStatus(req.id), is emitted to the socket as 'analysis-update'.
StatusReply ==
    /\ server = "ts"
    /\ req.kind = "status"
    /\ req.pc = "db"
    /\ req' = Idle
    /\ UNCHANGED <<server, client, call, jobs, processingJobs, db, cache, room, files, analysisCache, cmp>>

\* GET /api/analysis/:id: cacheService.get is called.
GetAnalysis(id) ==
    /\ server = "ts"
    /\ req.pc = "idle"
    /\ id \in DOMAIN jobs
    /\ req' = [Idle EXCEPT !.kind = "get", !.id = id, !.pc = "cache"]
    /\ UNCHANGED <<server, client, call, jobs, processingJobs, db, cache, room, files, analysisCache, cmp>>

\* cacheService.get returned: a hit is sent as the response, a miss goes to
\* the database.
GetCacheReply ==
    /\ server = "ts"
    /\ req.kind = "get"
    /\ req.pc = "cache"
    /\ req' = IF req.id \in DOMAIN cache THEN Idle ELSE [req EXCEPT !.pc = "db"]
    /\ UNCHANGED <<server, client, call, jobs, processingJobs, db, cache, room, files, analysisCache, cmp>>

\* databaseService.getAnalysis returned: no row is a 404, a row is cached next.
GetDbReply ==
    /\ server = "ts"
    /\ req.kind = "get"
    /\ req.pc = "db"
    /\ req' = IF req.id \in DOMAIN db
              THEN [req EXCEPT !.pc = "cacheset", !.row = {db[req.id]}]
              ELSE Idle
    /\ UNCHANGED <<server, client, call, jobs, processingJobs, db, cache, room, files, analysisCache, cmp>>

\* cacheService.set(id, result, 3600) returned; the row is sent as the response.
GetCacheSet(ok) ==
    /\ server = "ts"
    /\ req.kind = "get"
    /\ req.pc = "cacheset"
    /\ cache' = IF ok THEN Put(cache, req.id, CHOOSE r \in req.row : TRUE) ELSE cache
    /\ req' = Idle
    /\ UNCHANGED <<server, client, call, jobs, processingJobs, db, room, files, analysisCache, cmp>>

(***************************** the dashboard's socket ************************)
\* The dashboard before handleFileUploaded. pc is the position of
\* handleFileUploaded, socket the state of apiService.socket, http the upload
\* request, id the analysis id of the dashboard's upload, sub the subscription
\* to room analysis_<id>, inbox the events on their way to the socket, progress
\* the value of the progress bar. Monitors: got lists the values onProgress was
\* called with, terminal is the terminal callback that ran, missed counts the
\* events the server emitted to the room of the dashboard's upload while the
\* socket was not in it.
NoClient ==
    [pc |-> "idle", socket |-> "none", http |-> "none", id |-> NoId, sub |-> "none",
     inbox |-> <<>>, progress |-> 0, got |-> <<>>, terminal |-> "none", missed |-> 0]

ProgressEvent(p) == <<"progress", p>>

CompleteEvent == <<"complete", ProgressDone>>

ErrorEvent == <<"error", 0>>

SubscribedEvent == <<"subscribed", 0>>

\* io.to(`analysis_${X}`).emit(...) for each event of evs, seen from the
\* dashboard: a socket that has joined the room gets the events, in order; to a
\* room the socket has not joined they are lost.
ToRoom(c, X, evs) ==
    IF c.id # X THEN c
    ELSE IF c.sub = "joined" THEN [c EXCEPT !.inbox = @ \o evs]
    ELSE [c EXCEPT !.missed = @ + Len(evs)]

(***************************** server-websocket.js ***************************)
\* analysisResult of the upload handler for the upload that got id X
WsResult(X) == [analysisId |-> X, status |-> "complete", data |-> <<"parsed", X[2]>>]

\* POST /api/analyze/upload up to the setTimeout(..., 1000): the id is drawn and
\* sent in the response, the analysis is scheduled. The request is the
\* dashboard's if the dashboard has one under way, else another client's.
WsUpload ==
    /\ server = "ws"
    /\ Cardinality(DOMAIN jobs) < MaxJobs
    /\ LET X == ApiId(Cardinality(DOMAIN jobs) + 1) IN
         /\ jobs' = Put(jobs, X, [NewJob EXCEPT !.pc = "waiting"])
         /\ room' = Put(room, X, NoEvents)
         /\ files' = files \cup {FilePath(X)}
         /\ client' = IF client.http = "request"
                       THEN [client EXCEPT !.http = "response", !.id = X]
                       ELSE client
    /\ UNCHANGED <<server, call, processingJobs, db, cache, req, analysisCache, cmp>>

\* faulty variant of WsStart: the two stages are emitted in the wrong order
WsStart_swapped(X) ==
    /\ server = "ws"
    /\ X \in DOMAIN jobs
    /\ jobs[X].pc = "waiting"
    /\ room' = [room EXCEPT ![X] = EmitProgress(EmitProgress(@, 15), 5)]
    /\ client' = ToRoom(client, X, <<ProgressEvent(15), ProgressEvent(5)>>)
    /\ jobs' = [jobs EXCEPT ![X].pc = "parsing"]
    /\ UNCHANGED <<server, call, processingJobs, db, cache, files, req, analysisCache, cmp>>

\* The timeout callback up to `await axios.post(...)`: progress 5 and 15.
WsStart(X) ==
    /\ server = "ws"
    /\ X \in DOMAIN jobs
    /\ jobs[X].pc = "waiting"
    /\ room' = [room EXCEPT ![X] = EmitProgress(EmitProgress(@, 5), 15)]
    /\ client' = ToRoom(client, X, <<ProgressEvent(5), ProgressEvent(15)>>)
    /\ jobs' = [jobs EXCEPT ![X].pc = "parsing"]
    /\ UNCHANGED <<server, call, processingJobs, db, cache, files, req, analysisCache, cmp>>

ParserData == {"valid", "malformed"}

\* The parser service answered. Progress 50; the result is formatted (data
\* whose layers or suggestions have the wrong shape makes this throw: the catch
\* block emits 'error'); progress 85; the result is stored; progress 100; the
\* 'complete' timeout is set. The finally block calls unlink.
WsParserResponds(X, data) ==
    /\ server = "ws"
    /\ X \in DOMAIN jobs
    /\ jobs[X].pc = "parsing"
    /\ IF data = "valid"
       THEN /\ room' = [room EXCEPT ![X] =
                 EmitProgress(EmitProgress(EmitProgress(@, 50), 85), ProgressDone)]
            /\ client' = ToRoom(client, X, <<ProgressEvent(50), ProgressEvent(85),
                                              ProgressEvent(ProgressDone)>>)
            /\ analysisCache' = Put(analysisCache, X, WsResult(X))
            /\ jobs' = [jobs EXCEPT ![X] = [@ EXCEPT !.pc = "unlinking", !.completeDue = TRUE]]
       ELSE /\ room' = [room EXCEPT ![X] = EmitError(EmitProgress(@, 50), "Analysis failed")]
            /\ client' = ToRoom(client, X, <<ProgressEvent(50), ErrorEvent>>)
            /\ analysisCache' = analysisCache
            /\ jobs' = [jobs EXCEPT ![X].pc = "unlinking"]
    /\ UNCHANGED <<server, call, processingJobs, db, cache, files, req, cmp>>

\* axios.post rejected (timeout, refused connection, error status): the catch
\* block emits 'error', the finally block calls unlink.
WsParserFails(X) ==
    /\ server = "ws"
    /\ X \in DOMAIN jobs
    /\ jobs[X].pc = "parsing"
    /\ room' = [room EXCEPT ![X] = EmitError(@, "Analysis failed")]
    /\ client' = ToRoom(client, X, <<ErrorEvent>>)
    /\ jobs' = [jobs EXCEPT ![X].pc = "unlinking"]
    /\ UNCHANGED <<server, call, processingJobs, db, cache, files, req, analysisCache, cmp>>

\* The setTimeout(..., 200) callback emits 'complete'.
WsEmitComplete(X) ==
    /\ server = "ws"
    /\ X \in DOMAIN jobs
    /\ jobs[X].completeDue
    /\ room' = [room EXCEPT ![X] = EmitComplete(@)]
    /\ client' = ToRoom(client, X, <<CompleteEvent>>)
    /\ jobs' = [jobs EXCEPT ![X].completeDue = FALSE]
    /\ UNCHANGED <<server, call, processingJobs, db, cache, files, req, analysisCache, cmp>>

\* fsPromises.unlink(filepath).catch(() => {}) settles.
WsUnlink(X, ok) ==
    /\ server = "ws"
    /\ X \in DOMAIN jobs
    /\ jobs[X].pc = "unlinking"
    /\ files' = IF ok THEN files \ {FilePath(X)} ELSE files
    /\ jobs' = [jobs EXCEPT ![X].pc = "done"]
    /\ UNCHANGED <<server, client, call, processingJobs, db, cache, room, req, analysisCache, cmp>>

\* GET /api/analysis/:id of server-websocket.js: the entry of
\* global.analysisCache, or nothing (404), as a set of at most one result
WsGetAnalysis(id) ==
    IF id \in DOMAIN analysisCache THEN {analysisCache[id]} ELSE {}

(***************************** specification: the servers *******************)
NoCompare ==
    [pc |-> "idle", via |-> "none", files |-> 0, metrics |-> {}, format |-> "json",
     i |-> 0, analyses |-> <<>>, tracker |-> Empty, timer |-> {}, started |-> 0,
     failed |-> 0, out |-> "none", error |-> Null, result |-> {}]

\* no function call under way
NoCall == [fn |-> "none", pc |-> "idle", arg |-> <<>>, out |-> <<>>]

\* the stores and queues of a server that has just started
Stores ==
    /\ jobs = Empty
    /\ processingJobs = Empty
    /\ db = Empty
    /\ cache = Empty
    /\ room = Empty
    /\ files = {}
    /\ req = Idle
    /\ analysisCache = Empty
    /\ client = NoClient

\* a server that has just started: no job, nothing stored, no request
Fresh ==
    /\ call = NoCall
    /\ Stores

Init ==
    /\ server \in {"ts", "ws"}
    /\ Fresh
    /\ cmp = NoCompare

Next ==
    \/ Upload
    \/ \E X \in ApiIds : AnalyzeStart(X)
    \/ \E X \in ApiIds : Tick(X)
    \/ \E X \in ApiIds : ParserHangs(X)
    \/ \E X \in ApiIds, o \in CloseOutcomes : ParserClose(X, o)
    \/ \E X \in ApiIds, ok \in BOOLEAN : SaveAnalysis(X, ok)
    \/ \E X \in ApiIds, ok \in BOOLEAN : CacheSet(X, ok)
    \/ \E X \in ApiIds, ok \in BOOLEAN : Unlink(X, ok)
    \/ \E X \in ApiIds : RequestUpdate(X)
    \/ StatusReply
    \/ \E X \in ApiIds : GetAnalysis(X)
    \/ GetCacheReply
    \/ GetDbReply
    \/ \E ok \in BOOLEAN : GetCacheSet(ok)
    \/ WsUpload
    \/ \E X \in ApiIds : WsStart(X)
    \/ \E X \in ApiIds, d \in ParserData : WsParserResponds(X, d)
    \/ \E X \in ApiIds : WsParserFails(X)
    \/ \E X \in ApiIds : WsEmitComplete(X)
    \/ \E X \in ApiIds, ok \in BOOLEAN : WsUnlink(X, ok)

Spec == Init /\ [][Next]_vars

\* One step of the background task of job X that Node's event loop, the
\* database, redis and the file system are bound to take; the parser's 'close'
\* comes only from a parser process that has not hung.
JobStep(X) ==
    \/ AnalyzeStart(X)
    \/ Tick(X)
    \/ \E o \in CloseOutcomes : ParserClose(X, o)
    \/ \E ok \in BOOLEAN : SaveAnalysis(X, ok)
    \/ \E ok \in BOOLEAN : CacheSet(X, ok)
    \/ \E ok \in BOOLEAN : Unlink(X, ok)

FairSpec == Spec /\ \A X \in ApiIds : WF_vars(JobStep(X))

(***************************** specification: DatabaseService ***************)
Statuses == {"processing", "complete", "error"}

\* the results a caller may hand to saveAnalysis(id, result)
SaveInputs(id) ==
    {[id |-> id, filepath |-> FilePath(id), status |-> st, data |-> <<"parsed", k>>] :
        st \in Statuses, k \in 1..MaxJobs}

ErrorInputs == {Null, "analysis failed"}

\* DatabaseService.saveAnalysis(id, r)
DbSaveAnalysis(id, r) ==
    /\ db' = DbSave(db, id, r)
    /\ UNCHANGED <<server, client, call, jobs, processingJobs, cache, room, files, req, analysisCache, cmp>>

\* DatabaseService.updateAnalysisStatus(id, status, error)
DbUpdateAnalysisStatus(id, status, err) ==
    /\ db' = DbUpdateStatus(db, id, status, err)
    /\ UNCHANGED <<server, client, call, jobs, processingJobs, cache, room, files, req, analysisCache, cmp>>

DbInit ==
    /\ server = "ts"
    /\ Fresh
    /\ cmp = NoCompare

DbNext ==
    \/ \E id \in ApiIds : \E r \in SaveInputs(id) : DbSaveAnalysis(id, r)
    \/ \E id \in ApiIds, st \in Statuses, e \in ErrorInputs : DbUpdateAnalysisStatus(id, st, e)

DbSpec == DbInit /\ [][DbNext]_vars

(***************************** ComparisonService ****************************)
RECURSIVE MinOf(_), MaxOf(_)

\* Math.min(...values) of a non-empty list
MinOf(values) ==
    IF Len(values) = 1 THEN values[1]
    ELSE LET m == MinOf(Tail(values)) IN IF values[1] <= m THEN values[1] ELSE m

\* Math.max(...values) of a non-empty list
MaxOf(values) ==
    IF Len(values) = 1 THEN values[1]
    ELSE LET m == MaxOf(Tail(values)) IN IF values[1] >= m THEN values[1] ELSE m

\* faulty variant of IndexOf: positions counted from 1
IndexOf_oneBased(values, v) ==
    CHOOSE i \in 1..Len(values) :
        values[i] = v /\ \A j \in 1..(i - 1) : values[j] # v

\* values.indexOf(v): the first position of v, counted from 0
IndexOf(values, v) ==
    (CHOOSE i \in 1..Len(values) :
        values[i] = v /\ \A j \in 1..(i - 1) : values[j] # v) - 1

\* x || 0 for an optional number kept as a set of at most one value
OrZero(opt) == IF opt = {} THEN 0 ELSE CHOOSE v \in opt : TRUE

\* ((max - min) / min) * 100 in floating point: a quotient num/den, or what
\* the division by 0 gives
Difference(values) ==
    IF Len(values) > 1
    THEN LET lo == MinOf(values)
             hi == MaxOf(values) IN
         IF lo # 0 THEN [kind |-> "number", num |-> (hi - lo) * 100, den |-> lo]
         ELSE IF hi = 0 THEN [kind |-> "NaN", num |-> 0, den |-> 0]
              ELSE [kind |-> "Infinity", num |-> (hi - lo) * 100, den |-> 0]
    ELSE [kind |-> "number", num |-> 0, den |-> 1]

\* x && P(x) for an optional number: undefined and 0 are falsy
Truthy(opt) == opt # {} /\ OrZero(opt) # 0

\* Math.max(0, Math.min(100, score))
Clamp(score) == IF score < 0 THEN 0 ELSE IF score > 100 THEN 100 ELSE score

\* calculateQualityScore(analysis)
CalculateQualityScore(a) ==
    LET lh == OrZero(a.layer_height)
        s1 == IF Truthy(a.layer_height) /\ lh > 30 THEN 100 - 10 ELSE 100
        s2 == IF Truthy(a.infill_density) /\ OrZero(a.infill_density) < 10 THEN s1 - 15 ELSE s1
        s3 == IF a.support_detected THEN s2 - 5 ELSE s2
        s4 == IF a.bridging_detected THEN s3 - 10 ELSE s3
        s5 == IF Truthy(a.layer_height) /\ lh >= 15 /\ lh <= 25 THEN s4 + 5 ELSE s4
    IN Clamp(s5)

\* ((max - min) / max) * 100, the difference of the quality scores
DifferenceByMax(values) ==
    IF Len(values) > 1
    THEN LET lo == MinOf(values)
             hi == MaxOf(values) IN
         IF hi # 0 THEN [kind |-> "number", num |-> (hi - lo) * 100, den |-> hi]
         ELSE [kind |-> "NaN", num |-> 0, den |-> 0]
    ELSE [kind |-> "number", num |-> 0, den |-> 1]

\* the metric names a request selects, as generateComparison stores them
MetricKeys(metrics) ==
    {k \in {"print_time", "material_usage", "quality_score"} :
        \/ k = "print_time" /\ "printTime" \in metrics
        \/ k = "material_usage" /\ "material" \in metrics
        \/ k = "quality_score" /\ "quality" \in metrics}

\* generateComparison, its files and its print_time, material_usage and
\* quality_score metrics. A metric reads the fields of the analyses only
\* when it was asked for: filepath, geometry.time_estimate,
\* geometry.extrusion_stats.total_filament, and what calculateQualityScore reads.
GenerateComparison(analyses, metrics) ==
    LET printTimes == [i \in 1..Len(analyses) |-> OrZero(analyses[i].time)]
        materialUsage == [i \in 1..Len(analyses) |-> OrZero(analyses[i].filament)]
        qualityScores == [i \in 1..Len(analyses) |-> CalculateQualityScore(analyses[i])]
        Metric(values) ==
            [values |-> values, winner |-> IndexOf(values, MinOf(values)),
             difference |-> Difference(values)]
        QualityMetric(values) ==
            [values |-> values, winner |-> IndexOf(values, MaxOf(values)),
             difference |-> DifferenceByMax(values)]
    IN [files |-> [i \in 1..Len(analyses) |-> analyses[i].filepath],
        metrics |-> [k \in MetricKeys(metrics) |->
                        IF k = "print_time" THEN Metric(printTimes)
                        ELSE IF k = "material_usage" THEN Metric(materialUsage)
                        ELSE QualityMetric(qualityScores)]]

\* faulty variant of TooFewFiles: the guard is off by one
TooFewFiles_offByOne(n) == n < 1

\* filepaths.length < 2
TooFewFiles(n) == n < 2

\* !files || files.length < 2 of POST /api/compare
RouteTooFewFiles(n) == n < 2

\* the file paths of a comparison request
ComparePath(k) == <<"compare", k>>

\* analysisService.analyze(filepath, ...) up to its return, in the
\* AnalysisService of the ComparisonService: a record under a new id, the
\* parser spawned, the interval started.
CmpAnalyzeBegin(c, k) ==
    [c EXCEPT !.i = k, !.started = @ + 1, !.pc = "analyzing",
              !.timer = {ProgressStart},
              !.tracker = Put(@, <<"cmp", k>>, [progress |-> 0, stage |-> "starting"])]

\* compare(filepaths, metrics, outputFormat) up to its first await
CompareBegin(c, n, m, f) ==
    LET c1 == [c EXCEPT !.files = n, !.metrics = m, !.format = f] IN
    IF TooFewFiles(n)
    THEN [c1 EXCEPT !.pc = "done", !.out = "rejected",
                    !.error = "At least 2 files are required for comparison"]
    ELSE CmpAnalyzeBegin(c1, 1)

MetricSets == {{"printTime", "material"}, {"printTime"}, {}}

Formats == {"json", "html", "pdf"}

\* times and filament lengths a parsed file reports (none when the parser
\* gave no geometry)
TimeInputs == {{}, {600}, {900}}

FilamentInputs == {{}, {600}}

\* what the parser script prints for the k-th file of a comparison
CompareResults(k) ==
    {[id |-> <<"cmp", k>>, filepath |-> ComparePath(k), status |-> "complete",
      time |-> t, filament |-> e] : t \in TimeInputs, e \in FilamentInputs}

\* comparisonService.compare called with n file paths
CompareCall(n, m, f) ==
    /\ cmp.pc = "idle"
    /\ cmp' = CompareBegin([cmp EXCEPT !.via = "service"], n, m, f)
    /\ UNCHANGED <<server, client, call, jobs, processingJobs, db, cache, room, files, req, analysisCache>>

\* POST /api/compare with n files in the body
PostCompare(n, m, f) ==
    /\ cmp.pc = "idle"
    /\ cmp' = IF RouteTooFewFiles(n)
              THEN [cmp EXCEPT !.via = "route", !.files = n, !.pc = "done",
                               !.out = "rejected",
                               !.error = "At least 2 files required for comparison"]
              ELSE CompareBegin([cmp EXCEPT !.via = "route"], n, m, f)
    /\ UNCHANGED <<server, client, call, jobs, processingJobs, db, cache, room, files, req, analysisCache>>

\* the setInterval callback of the running analyze (no progress callback is passed)
CmpTick ==
    /\ cmp.pc = "analyzing"
    /\ \E p \in cmp.timer :
         cmp' = [cmp EXCEPT !.timer = {NextProgress(p)},
                            !.tracker = Put(@, <<"cmp", cmp.i>>,
                                            [progress |-> NextProgress(p),
                                             stage |-> "analyzing"])]
    /\ UNCHANGED <<server, client, call, jobs, processingJobs, db, cache, room, files, req, analysisCache>>

\* child.on('close') of the running analyze and the continuation of compare:
\* a rejected analysis throws `Failed to analyze <file>`; a resolved one is
\* pushed, then the next file is analysed or, after the last one,
\* generateComparison runs and its result (or the report built from it) is
\* returned.
CmpClose(outcome, r) ==
    /\ cmp.pc = "analyzing"
    /\ r \in CompareResults(cmp.i)
    /\ LET c1 == [ClearInterval(cmp) EXCEPT !.tracker = TrackerDelete(@, <<"cmp", cmp.i>>)] IN
       cmp' = IF outcome = "ok"
              THEN LET c2 == [c1 EXCEPT !.analyses = Append(@, r)] IN
                   IF cmp.i < cmp.files
                   THEN CmpAnalyzeBegin(c2, cmp.i + 1)
                   ELSE [c2 EXCEPT !.pc = "done", !.out = "returned",
                                   !.result = {GenerateComparison(c2.analyses, c2.metrics)}]
              ELSE [c1 EXCEPT !.pc = "done", !.out = "rejected", !.failed = cmp.i,
                              !.error = "Failed to analyze"]
    /\ UNCHANGED <<server, client, call, jobs, processingJobs, db, cache, room, files, req, analysisCache>>

CmpNext ==
    \/ \E n \in 0..MaxFiles, m \in MetricSets, f \in Formats : CompareCall(n, m, f)
    \/ \E n \in 0..MaxFiles, m \in MetricSets, f \in Formats : PostCompare(n, m, f)
    \/ CmpTick
    \/ \E o \in CloseOutcomes, k \in 1..MaxFiles :
          \E r \in CompareResults(k) : CmpClose(o, r)

CmpSpec == DbInit /\ [][CmpNext]_vars

(***************************** specification: generateComparison ***********)
\* the AnalysisResult values of the type: any status, any of the metric inputs
AnyResults(k) ==
    {[id |-> <<"cmp", k>>, filepath |-> ComparePath(k), status |-> st,
      time |-> t, filament |-> e] :
        st \in Statuses, t \in TimeInputs, e \in FilamentInputs}

RECURSIVE ListsOf(_)

\* the lists of n results, one per file
ListsOf(n) ==
    IF n = 0 THEN {<<>>}
    ELSE {Append(as, r) : as \in ListsOf(n - 1), r \in AnyResults(n)}

GenInit ==
    /\ server = "ts"
    /\ Fresh
    /\ \E n \in 2..MaxFiles : \E as \in ListsOf(n), m \in MetricSets :
         cmp = [NoCompare EXCEPT !.pc = "generate", !.via = "function",
                                 !.files = Len(as), !.analyses = as, !.metrics = m]

\* generateComparison(analyses, metrics) applied to the drawn input
Generate ==
    /\ cmp.pc = "generate"
    /\ cmp' = [cmp EXCEPT !.pc = "done", !.out = "returned",
                          !.result = {GenerateComparison(cmp.analyses, cmp.metrics)}]
    /\ UNCHANGED <<server, client, call, jobs, processingJobs, db, cache, room, files, req, analysisCache>>

GenNext == Generate

GenSpec == GenInit /\ [][GenNext]_vars

(***************************** specification: quality_score metric *********)
\* results of the parser for the k-th file that differ in what the quality
\* score reads
QualityResults(k) ==
    {[id |-> <<"cmp", k>>, filepath |-> ComparePath(k), status |-> "complete",
      time |-> {600}, filament |-> {600},
      layer_height |-> lh, infill_density |-> inf,
      support_detected |-> sup, bridging_detected |-> sup /\ inf = {5}] :
        lh \in {{}, {20}, {35}}, inf \in {{5}, {20}}, sup \in BOOLEAN}

RECURSIVE QualityLists(_)

\* the lists of n such results, one per file
QualityLists(n) ==
    IF n = 0 THEN {<<>>}
    ELSE {Append(as, r) : as \in QualityLists(n - 1), r \in QualityResults(n)}

QualInit ==
    /\ server = "ts"
    /\ Fresh
    /\ \E n \in 2..MaxFiles : \E as \in QualityLists(n),
                                 m \in {{"quality"}, {"quality", "printTime"}} :
         cmp = [NoCompare EXCEPT !.pc = "generate", !.via = "function",
                                 !.files = Len(as), !.analyses = as, !.metrics = m]

QualSpec == QualInit /\ [][GenNext]_vars

(***************************** specification: calculateQualityScore ********)
\* Lengths are in hundredths of a millimetre (0.3 mm is 30), so that the
\* comparisons with the decimal literals of the code are exact. An optional
\* number is a set of at most one value.

\* profile.layer_height: absent, or a value of the grid
LayerHeights == {{}, {0}, {5}, {10}, {15}, {20}, {25}, {30}, {35}}

\* profile.infill_density: absent, or a percentage
InfillDensities == {{}, {0}, {5}, {10}, {20}, {30}, {100}}

\* the fields of an analysis that calculateQualityScore reads
ScoreInputs ==
    [layer_height : LayerHeights, infill_density : InfillDensities,
     support_detected : BOOLEAN, bridging_detected : BOOLEAN]

ScoreInit ==
    /\ server = "ts"
    /\ Stores
    /\ cmp = NoCompare
    /\ \E a \in ScoreInputs :
         call = [fn |-> "calculateQualityScore", pc |-> "called", arg |-> a, out |-> <<>>]

\* the call returns
ScoreReturn ==
    /\ call.fn = "calculateQualityScore"
    /\ call.pc = "called"
    /\ call' = [call EXCEPT !.pc = "returned", !.out = CalculateQualityScore(call.arg)]
    /\ UNCHANGED <<server, client, jobs, processingJobs, db, cache, room, files, req, analysisCache, cmp>>

ScoreNext == ScoreReturn

ScoreSpec == ScoreInit /\ [][ScoreNext]_vars

(***************************** OptimizationService **************************)
\* suggestions.push({...}) when the rule's condition holds: the list of the
\* suggestion, or the empty list. Of a suggestion the category, the title and
\* the impact are kept.
Rule(cond, category, title, impact) ==
    IF cond THEN <<[category |-> category, title |-> title, impact |-> impact]>>
    ELSE <<>>

\* generateSpeedOptimizations(analysis)
GenerateSpeedOptimizations(a) ==
    Rule(Truthy(a.layer_height) /\ OrZero(a.layer_height) < 20,
         "Speed", "Increase Layer Height", "High")
    \o Rule(Truthy(a.infill_density) /\ OrZero(a.infill_density) > 25,
            "Speed", "Reduce Infill Density", "Medium")
    \o Rule(Truthy(a.print_speed) /\ OrZero(a.print_speed) < 50,
            "Speed", "Increase Print Speed", "Medium")
    \o Rule(a.support_detected, "Speed", "Optimize Support Settings", "Medium")

\* generateQualityOptimizations(analysis)
GenerateQualityOptimizations(a) ==
    Rule(Truthy(a.layer_height) /\ OrZero(a.layer_height) > 20,
         "Quality", "Reduce Layer Height", "High")
    \o Rule(Truthy(a.print_speed) /\ OrZero(a.print_speed) > 60,
            "Quality", "Reduce Print Speed", "Medium")
    \o Rule(Truthy(a.wall_count) /\ OrZero(a.wall_count) < 3,
            "Quality", "Increase Wall Count", "Medium")
    \o Rule(Truthy(a.temperature_nozzle) /\ OrZero(a.temperature_nozzle) > 220,
            "Quality", "Optimize Temperature", "Medium")

\* generateMaterialOptimizations(analysis)
GenerateMaterialOptimizations(a) ==
    Rule(Truthy(a.infill_density) /\ OrZero(a.infill_density) > 20,
         "Material", "Reduce Infill Density", "High")
    \o Rule(/\ Truthy(a.extrusion_width) /\ Truthy(a.wall_count)
            /\ OrZero(a.extrusion_width) * OrZero(a.wall_count) > 160,
            "Material", "Optimize Wall Thickness", "Medium")
    \o Rule(a.support_detected, "Material", "Minimize Support Material", "Medium")
    \o Rule(OrZero(a.total_filament) > 100, "Material", "Consider Hollow Design", "High")

\* faulty variant of GenerateSafetyOptimizations: the nozzle rule uses the
\* threshold of the issue check
GenerateSafetyOptimizations_280(a) ==
    Rule(Truthy(a.temperature_nozzle) /\ OrZero(a.temperature_nozzle) > 280,
         "Safety", "High Temperature Warning", "High")
    \o Rule(Truthy(a.temperature_bed) /\ OrZero(a.temperature_bed) > 100,
            "Safety", "High Bed Temperature Warning", "Medium")
    \o Rule(OrZero(a.time_estimate) > 24 * 3600,
            "Safety", "Long Print Duration Warning", "Medium")

\* generateSafetyOptimizations(analysis)
GenerateSafetyOptimizations(a) ==
    Rule(Truthy(a.temperature_nozzle) /\ OrZero(a.temperature_nozzle) > 250,
         "Safety", "High Temperature Warning", "High")
    \o Rule(Truthy(a.temperature_bed) /\ OrZero(a.temperature_bed) > 100,
            "Safety", "High Bed Temperature Warning", "Medium")
    \o Rule(OrZero(a.time_estimate) > 24 * 3600,
            "Safety", "Long Print Duration Warning", "Medium")

\* a.category.toLowerCase()
ToLowerCase == [Speed |-> "speed", Quality |-> "quality", Material |-> "material",
                Safety |-> "safety"]

\* impactScore
ImpactScore == [High |-> 3, Medium |-> 2, Low |-> 1]

\* the comparator of rankSuggestions: negative when a goes first
Compare(a, b, profile) ==
    LET aPriorityMatch == ToLowerCase[a.category] = profile.priority
        bPriorityMatch == ToLowerCase[b.category] = profile.priority
    IN IF aPriorityMatch /\ ~bPriorityMatch THEN -1
       ELSE IF ~aPriorityMatch /\ bPriorityMatch THEN 1
       ELSE ImpactScore[b.impact] - ImpactScore[a.impact]

RECURSIVE InsertSorted(_, _, _), SortStable(_, _)

\* x put into a sorted list behind every element that does not go after it
InsertSorted(x, sorted, profile) ==
    IF sorted = <<>> THEN <<x>>
    ELSE IF Compare(x, Head(sorted), profile) < 0 THEN <<x>> \o sorted
         ELSE <<Head(sorted)>> \o InsertSorted(x, Tail(sorted), profile)

\* Array.prototype.sort with the comparator: a stable sort
SortStable(list, profile) ==
    IF list = <<>> THEN <<>>
    ELSE InsertSorted(list[Len(list)], SortStable(SubSeq(list, 1, Len(list) - 1), profile),
                      profile)

\* faulty variant of RankSuggestions: the list is returned as generated
RankSuggestions_unsorted(suggestions, profile) == suggestions

\* rankSuggestions(suggestions, profile)
RankSuggestions(suggestions, profile) == SortStable(suggestions, profile)

\* faulty variant of GeneratedSuggestions: the speed rules run without their guard,
\* and again under it
GeneratedSuggestions_speedTwice(a, profile) ==
    GenerateSpeedOptimizations(a)
    \o (IF profile.priority = "speed" \/ ~Truthy(profile.maxPrintTime)
        THEN GenerateSpeedOptimizations(a) ELSE <<>>)
    \o (IF profile.priority = "quality" \/ Truthy(profile.minQuality)
        THEN GenerateQualityOptimizations(a) ELSE <<>>)
    \o (IF profile.priority = "material" \/ Truthy(profile.maxMaterial)
        THEN GenerateMaterialOptimizations(a) ELSE <<>>)
    \o GenerateSafetyOptimizations(a)

\* generateOptimizations up to the ranking: the suggestions in the order the
\* rules pushed them
GeneratedSuggestions(a, profile) ==
    (IF profile.priority = "speed" \/ ~Truthy(profile.maxPrintTime)
     THEN GenerateSpeedOptimizations(a) ELSE <<>>)
    \o (IF profile.priority = "quality" \/ Truthy(profile.minQuality)
        THEN GenerateQualityOptimizations(a) ELSE <<>>)
    \o (IF profile.priority = "material" \/ Truthy(profile.maxMaterial)
        THEN GenerateMaterialOptimizations(a) ELSE <<>>)
    \o GenerateSafetyOptimizations(a)

\* generateOptimizations(analysis, profile)
GenerateOptimizations(a, profile) ==
    RankSuggestions(GeneratedSuggestions(a, profile), profile)

\* the fields of a stored analysis the rules read; temperatures in degrees
\* Celsius, speeds in mm/s, times in seconds, extrusion width in hundredths
\* of a millimetre
OptimizeInputs ==
    [layer_height : {{}, {10}, {25}}, infill_density : {{22}, {30}},
     print_speed : {{40}, {70}}, wall_count : {{2}, {5}},
     extrusion_width : {{}, {40}},
     temperature_nozzle : {{}, {210}, {260}, {290}}, temperature_bed : {{60}, {110}},
     time_estimate : {{3600}, {90000}}, total_filament : {{50}, {150}},
     support_detected : BOOLEAN]

\* OptimizationProfile: the priority and the constraints, each set or not
OptimizationProfiles ==
    [priority : {"speed", "quality", "material"},
     maxPrintTime : {{}, {7200}}, minQuality : {{}, {80}}, maxMaterial : {{}, {100}}]

OptInit ==
    /\ server = "ts"
    /\ Stores
    /\ cmp = NoCompare
    /\ \E a \in OptimizeInputs, p \in OptimizationProfiles :
         call = [fn |-> "generateOptimizations", pc |-> "called",
                 arg |-> [analysis |-> a, profile |-> p], out |-> <<>>]

\* the call returns the ranked list
OptReturn ==
    /\ call.fn = "generateOptimizations"
    /\ call.pc = "called"
    /\ call' = [call EXCEPT !.pc = "returned",
                            !.out = GenerateOptimizations(call.arg.analysis, call.arg.profile)]
    /\ UNCHANGED <<server, client, jobs, processingJobs, db, cache, room, files, req, analysisCache, cmp>>

OptNext == OptReturn

OptSpec == OptInit /\ [][OptNext]_vars

(***************************** specification: analyzeForIssues *************)
\* issues.push({...}); score -= penalty, when the check's condition holds
Issue(cond, type, category, penalty) ==
    IF cond THEN [issues |-> <<[type |-> type, category |-> category]>>, penalty |-> penalty]
    ELSE [issues |-> <<>>, penalty |-> 0]

\* faulty variant of AnalyzeForIssues: the temperature check uses the
\* threshold of the safety rule
AnalyzeForIssues_250(a) ==
    LET c1 == Issue(a.bridging_detected, "warning", "Bridging", 10)
        c2 == Issue(a.support_detected, "info", "Supports", 5)
        c3 == Issue(Truthy(a.temperature_nozzle) /\ OrZero(a.temperature_nozzle) > 250,
                    "error", "Temperature", 20)
        c4 == Issue(Truthy(a.layer_height) /\ OrZero(a.layer_height) < 10,
                    "warning", "Layer Height", 15)
        score == 100 - c1.penalty - c2.penalty - c3.penalty - c4.penalty
    IN [issues |-> c1.issues \o c2.issues \o c3.issues \o c4.issues,
        score |-> IF score < 0 THEN 0 ELSE score]

\* analyzeForIssues(analysis)
AnalyzeForIssues(a) ==
    LET c1 == Issue(a.bridging_detected, "warning", "Bridging", 10)
        c2 == Issue(a.support_detected, "info", "Supports", 5)
        c3 == Issue(Truthy(a.temperature_nozzle) /\ OrZero(a.temperature_nozzle) > 280,
                    "error", "Temperature", 20)
        c4 == Issue(Truthy(a.layer_height) /\ OrZero(a.layer_height) < 10,
                    "warning", "Layer Height", 15)
        score == 100 - c1.penalty - c2.penalty - c3.penalty - c4.penalty
    IN [issues |-> c1.issues \o c2.issues \o c3.issues \o c4.issues,
        score |-> IF score < 0 THEN 0 ELSE score]

\* the fields of an analysis that analyzeForIssues reads
IssueInputs ==
    [bridging_detected : BOOLEAN, support_detected : BOOLEAN,
     temperature_nozzle : {{}, {210}, {260}, {280}, {290}},
     layer_height : {{}, {0}, {5}, {9}, {10}, {20}}]

IssueInit ==
    /\ server = "ts"
    /\ Stores
    /\ cmp = NoCompare
    /\ \E a \in IssueInputs :
         call = [fn |-> "analyzeForIssues", pc |-> "called", arg |-> a, out |-> <<>>]

\* the call returns the issues and the score
IssueReturn ==
    /\ call.fn = "analyzeForIssues"
    /\ call.pc = "called"
    /\ call' = [call EXCEPT !.pc = "returned", !.out = AnalyzeForIssues(call.arg)]
    /\ UNCHANGED <<server, client, jobs, processingJobs, db, cache, room, files, req, analysisCache, cmp>>

IssueNext == IssueReturn

IssueSpec == IssueInit /\ [][IssueNext]_vars

(***************************** parseGCodeCommand ***************************)
\* A line is a sequence of characters. A number is kept exactly: sign,
\* digits and the count of decimals, with the trailing zeros of the decimals
\* dropped (1.50 and 1.5 are the same number).

Digits == {"0", "1", "2", "3", "4", "5", "6", "7", "8", "9"}

UpperCase == {"A", "B", "C", "D", "E", "F", "G", "H", "I", "J", "K", "L", "M",
              "N", "O", "P", "Q", "R", "S", "T", "U", "V", "W", "X", "Y", "Z"}

\* the characters of [-\d.]
NumberChars == Digits \cup {"-", "."}

DigitValue(c) == CHOOSE n \in 0..9 : <<"0", "1", "2", "3", "4", "5", "6", "7", "8", "9">>[n + 1] = c

NaN == [kind |-> "NaN", neg |-> FALSE, num |-> 0, scale |-> 0]

RECURSIVE SpanLen(_, _), ToInt(_), DropTrailingZeros(_), TrimStart(_), TrimEnd(_)
RECURSIVE IndexOfChar(_, _), ScanParams(_, _)

\* the length of the longest prefix of str made of characters of set
SpanLen(str, set) ==
    IF str = <<>> \/ Head(str) \notin set THEN 0 ELSE 1 + SpanLen(Tail(str), set)

\* the value of a string of digits
ToInt(str) ==
    IF str = <<>> THEN 0
    ELSE 10 * ToInt(SubSeq(str, 1, Len(str) - 1)) + DigitValue(str[Len(str)])

DropTrailingZeros(str) ==
    IF str # <<>> /\ str[Len(str)] = "0" THEN DropTrailingZeros(SubSeq(str, 1, Len(str) - 1))
    ELSE str

\* parseFloat(str) for a string of the characters of [-\d.]: the longest
\* prefix that is a number, or NaN when there is none
ParseFloat(str) ==
    LET neg == str # <<>> /\ Head(str) = "-"
        r == IF neg THEN Tail(str) ELSE str
        n == SpanLen(r, Digits)
        rest == SubSeq(r, n + 1, Len(r))
        frac == IF rest # <<>> /\ Head(rest) = "."
                THEN SubSeq(rest, 2, 1 + SpanLen(Tail(rest), Digits))
                ELSE <<>>
        kept == DropTrailingZeros(frac)
    IN IF n = 0 /\ frac = <<>> THEN NaN
       ELSE [kind |-> "number", neg |-> neg,
             num |-> ToInt(SubSeq(r, 1, n) \o kept), scale |-> Len(kept)]

TrimStart(str) == IF str # <<>> /\ Head(str) = " " THEN TrimStart(Tail(str)) ELSE str

TrimEnd(str) ==
    IF str # <<>> /\ str[Len(str)] = " " THEN TrimEnd(SubSeq(str, 1, Len(str) - 1)) ELSE str

\* str.trim()
Trim(str) == TrimEnd(TrimStart(str))

\* str.indexOf(c): the first position of c counted from 0, or -1
IndexOfChar(str, c) ==
    IF str = <<>> THEN -1
    ELSE IF Head(str) = c THEN 0
         ELSE LET i == IndexOfChar(Tail(str), c) IN IF i = -1 THEN -1 ELSE i + 1

\* for (const m of paramsStr.matchAll(/([A-Z])([-\d.]+)/g)) params[m[1]] = parseFloat(m[2])
ScanParams(str, params) ==
    IF str = <<>> THEN params
    ELSE IF Head(str) \in UpperCase /\ Len(str) >= 2 /\ str[2] \in NumberChars
         THEN LET n == SpanLen(Tail(str), NumberChars) IN
              ScanParams(SubSeq(str, n + 2, Len(str)),
                         Put(params, Head(str), ParseFloat(SubSeq(str, 2, n + 1))))
         ELSE ScanParams(Tail(str), params)

\* faulty variant of MatchCommand: the type letter may be any capital
MatchCommand_anyLetter(command) ==
    IF Len(command) >= 2 /\ command[1] \in UpperCase /\ command[2] \in Digits
    THEN LET n == SpanLen(Tail(command), Digits)
             rest == SubSeq(command, n + 2, Len(command))
             d == IF Len(rest) >= 2 /\ rest[1] = "." /\ rest[2] \in Digits
                  THEN 1 + SpanLen(Tail(rest), Digits) ELSE 0
         IN {<<<<command[1]>>, SubSeq(command, 2, n + 1 + d),
               SubSeq(command, n + 2 + d, Len(command))>>}
    ELSE {}

\* command.match(/^([GMTF])(\d+(?:\.\d+)?)(.*)/): no match, or the three groups
MatchCommand(command) ==
    IF Len(command) >= 2 /\ command[1] \in {"G", "M", "T", "F"} /\ command[2] \in Digits
    THEN LET n == SpanLen(Tail(command), Digits)
             rest == SubSeq(command, n + 2, Len(command))
             d == IF Len(rest) >= 2 /\ rest[1] = "." /\ rest[2] \in Digits
                  THEN 1 + SpanLen(Tail(rest), Digits) ELSE 0
         IN {<<<<command[1]>>, SubSeq(command, 2, n + 1 + d),
               SubSeq(command, n + 2 + d, Len(command))>>}
    ELSE {}

\* parseGCodeCommand(line, lineNumber): null is the empty set, a command a
\* set of one record; comment is the empty set when it is undefined
ParseGCodeCommand(line, lineNumber) ==
    LET trimmed == Trim(line)
        commentIndex == IndexOfChar(trimmed, ";")
        command == IF commentIndex > 0 THEN Trim(SubSeq(trimmed, 1, commentIndex)) ELSE trimmed
        comment == IF commentIndex > 0
                   THEN Trim(SubSeq(trimmed, commentIndex + 2, Len(trimmed))) ELSE <<>>
    IN IF trimmed = <<>> \/ Head(trimmed) = ";" THEN {}
       ELSE {[type |-> m[1][1], code |-> ParseFloat(m[2]), params |-> ScanParams(m[3], Empty),
              comment |-> IF comment = <<>> THEN {} ELSE {comment},
              lineNumber |-> lineNumber] : m \in MatchCommand(command)}

(***************************** specification: parseGCodeCommand ************)
\* the characters of the lines drawn character by character
LineChars == {"G", "X", "1", " ", ";", ".", "-", "x"}

RECURSIVE LinesOf(_), ParamLists(_)

\* the lines of n characters
LinesOf(n) ==
    IF n = 0 THEN {<<>>}
    ELSE {Append(l, c) : l \in LinesOf(n - 1), c \in LineChars}

RawLines ==
    UNION {LinesOf(n) : n \in 0..MaxLineLen} \cup {<<"I", "N", "V", "A", "L", "I", "D">>}

Number(neg, num, scale) == [kind |-> "number", neg |-> neg, num |-> num, scale |-> scale]

\* command codes as written, with the number each one denotes
CodeTexts ==
    {[text |-> <<"1">>, value |-> Number(FALSE, 1, 0)],
     [text |-> <<"2", "8">>, value |-> Number(FALSE, 28, 0)],
     [text |-> <<"9", "2", ".", "1">>, value |-> Number(FALSE, 921, 1)]}

\* parameter values as written, with the number each one denotes
ParamTexts ==
    {[text |-> <<"1", "0">>, value |-> Number(FALSE, 10, 0)],
     [text |-> <<"2", "0">>, value |-> Number(FALSE, 20, 0)],
     [text |-> <<"3", "0", "0", "0">>, value |-> Number(FALSE, 3000, 0)],
     [text |-> <<"-", "5">>, value |-> Number(TRUE, 5, 0)],
     [text |-> <<"0", ".", "4">>, value |-> Number(FALSE, 4, 1)]}

\* the lists of n parameters with distinct letters
ParamLists(n) ==
    IF n = 0 THEN {<<>>}
    ELSE {qs \in {Append(ps, [letter |-> l, text |-> t.text, value |-> t.value]) :
                      ps \in ParamLists(n - 1), l \in {"X", "Y", "F"}, t \in ParamTexts} :
               \A i \in 1..(n - 1) : qs[i].letter # qs[n].letter}

\* comments as written behind the ';': none, or a text
CommentTexts == {{}, {<<>>}, {<<"m", "o", "v", "e">>}, {<<" ", "X", "9", " ">>}}

\* the commands written out: type, code, parameters, comment, and whether
\* the parameters are set apart by a blank
WrittenCommands ==
    [type : {"G", "M", "T", "F"}, code : CodeTexts,
     params : UNION {ParamLists(n) : n \in 0..MaxParams},
     comment : CommentTexts, sep : {<<" ">>, <<>>}]

RECURSIVE WriteParams(_, _)

WriteParams(ps, sep) ==
    IF ps = <<>> THEN <<>>
    ELSE sep \o <<Head(ps).letter>> \o Head(ps).text \o WriteParams(Tail(ps), sep)

\* the line of a written command
WriteLine(w) ==
    <<w.type>> \o w.code.text \o WriteParams(w.params, w.sep)
    \o (IF w.comment = {} THEN <<>> ELSE <<" ", ";">> \o (CHOOSE t \in w.comment : TRUE))

\* the command a written line stands for
Meant(w) ==
    [type |-> w.type, code |-> w.code.value,
     params |-> [l \in {w.params[i].letter : i \in 1..Len(w.params)} |->
                   (CHOOSE q \in {w.params[i] : i \in 1..Len(w.params)} : q.letter = l).value],
     comment |-> {t \in {<<"m", "o", "v", "e">>, <<"X", "9">>} :
                    \E c \in w.comment : c \in {t, <<" ">> \o t \o <<" ">>}}]

ParseInit ==
    /\ server = "ts"
    /\ Stores
    /\ cmp = NoCompare
    /\ \/ \E l \in RawLines :
            call = [fn |-> "parseGCodeCommand", pc |-> "called",
                    arg |-> [line |-> l, lineNumber |-> 1, meant |-> {}], out |-> <<>>]
       \/ \E w \in WrittenCommands :
            call = [fn |-> "parseGCodeCommand", pc |-> "called",
                    arg |-> [line |-> WriteLine(w), lineNumber |-> 1, meant |-> {Meant(w)}],
                    out |-> <<>>]

\* the call returns null or a command
ParseReturn ==
    /\ call.fn = "parseGCodeCommand"
    /\ call.pc = "called"
    /\ call' = [call EXCEPT !.pc = "returned",
                            !.out = ParseGCodeCommand(call.arg.line, call.arg.lineNumber)]
    /\ UNCHANGED <<server, client, jobs, processingJobs, db, cache, room, files, req, analysisCache, cmp>>

ParseNext == ParseReturn

ParseSpec == ParseInit /\ [][ParseNext]_vars

(***************************** GCodeVisualizer.parseGCode ******************)
\* Of a line the layer logic sees whether it is a G0/G1 move and the Z it
\* names, if any. Heights are in ten-thousandths of a millimetre (0.2 mm is
\* 2000).

\* the state of the forEach loop before the first line
LoopStart == [parsedLayers |-> <<>>, currentZ |-> 0, currentLayerCommands |-> <<>>,
              layerIndex |-> 0]

\* the body of lines.forEach for the line of number n
LoopBody(st, line, n) ==
    IF line.kind # "move" THEN st
    ELSE LET newLayer == /\ line.z # {}
                         /\ OrZero(line.z) # st.currentZ
                         /\ st.currentLayerCommands # <<>>
             st1 == IF newLayer
                    THEN [parsedLayers |-> Append(st.parsedLayers,
                                                  [index |-> st.layerIndex, z |-> st.currentZ,
                                                   commands |-> st.currentLayerCommands]),
                          currentZ |-> OrZero(line.z),
                          currentLayerCommands |-> <<>>,
                          layerIndex |-> st.layerIndex + 1]
                    ELSE st
         IN [st1 EXCEPT !.currentLayerCommands = Append(@, n)]

RECURSIVE ForEach(_, _)

\* the state after the first n lines
ForEach(lines, n) ==
    IF n = 0 THEN LoopStart ELSE LoopBody(ForEach(lines, n - 1), lines[n], n)

\* the layers parseGCode hands to setLayers
ParseGCode(lines) ==
    LET st == ForEach(lines, Len(lines)) IN
    IF st.currentLayerCommands # <<>>
    THEN Append(st.parsedLayers, [index |-> st.layerIndex, z |-> st.currentZ,
                                  commands |-> st.currentLayerCommands])
    ELSE st.parsedLayers

(***************************** specification: parseGCode *******************)
\* a line: a move with or without a Z word, or a line the loop skips
StreamLines ==
    {[kind |-> "move", z |-> z] : z \in {{}, {2000}, {2004}, {4000}}}
    \cup {[kind |-> "other", z |-> {}]}

RECURSIVE StreamsOf(_)

StreamsOf(n) ==
    IF n = 0 THEN {<<>>}
    ELSE {Append(l, c) : l \in StreamsOf(n - 1), c \in StreamLines}

LayerInit ==
    /\ server = "ts"
    /\ Stores
    /\ cmp = NoCompare
    /\ \E n \in 0..MaxStream : \E l \in StreamsOf(n) :
         call = [fn |-> "parseGCode", pc |-> "called", arg |-> l, out |-> <<>>]

\* the call has set the layers
LayerReturn ==
    /\ call.fn = "parseGCode"
    /\ call.pc = "called"
    /\ call' = [call EXCEPT !.pc = "returned", !.out = ParseGCode(call.arg)]
    /\ UNCHANGED <<server, client, jobs, processingJobs, db, cache, room, files, req, analysisCache, cmp>>

LayerNext == LayerReturn

LayerSpec == LayerInit /\ [][LayerNext]_vars

(******************* server-websocket.js: analysisResult.metadata ************)
\* `x || d` of JavaScript on an optional number: undefined and 0 give d
OrNumber(opt, d) == IF Truthy(opt) THEN OrZero(opt) ELSE d

\* `x || d` on an optional boolean: undefined and false give d
OrBoolean(opt, d) == IF opt = {TRUE} THEN TRUE ELSE d

\* `x || d` on an optional string: undefined and '' give d
OrString(opt, d) == IF opt = {} \/ opt = {""} THEN d ELSE CHOOSE v \in opt : TRUE

\* the constants on the right of `||` (lengths in hundredths of a millimetre)
Fallback ==
    [slicer |-> "Unknown", layerHeight |-> 20, bedTemperature |-> 60,
     infillDensity |-> 20, supportEnabled |-> FALSE, wallCount |-> 2]

\* the metadata object of analysisResult, built from parserData.profile
FormatMetadata(profile) ==
    [slicer         |-> OrString(profile.slicer_name, Fallback.slicer),
     layerHeight    |-> OrNumber(profile.layer_height, Fallback.layerHeight),
     bedTemperature |-> OrNumber(profile.temperature_bed, Fallback.bedTemperature),
     infillDensity  |-> OrNumber(profile.infill_density, Fallback.infillDensity),
     supportEnabled |-> OrBoolean(profile.support_enabled, Fallback.supportEnabled),
     wallCount      |-> OrNumber(profile.wall_count, Fallback.wallCount)]

\* profiles the parser service can report: each field absent or present
ParserProfiles ==
    [slicer_name     : {{}, {"Cura"}},
     layer_height    : {{}, {30}},
     temperature_bed : {{}, {0}, {80}},
     infill_density  : {{}, {0}, {50}},
     support_enabled : {{}, {FALSE}, {TRUE}},
     wall_count      : {{}, {4}}]

MetadataInit ==
    /\ server = "ws"
    /\ Stores
    /\ cmp = NoCompare
    /\ \E p \in ParserProfiles :
         call = [fn |-> "formatMetadata", pc |-> "called", arg |-> p, out |-> <<>>]

\* the object literal has been evaluated
MetadataReturn ==
    /\ call.fn = "formatMetadata"
    /\ call.pc = "called"
    /\ call' = [call EXCEPT !.pc = "returned", !.out = FormatMetadata(call.arg)]
    /\ UNCHANGED <<server, client, jobs, processingJobs, db, cache, room, files, req, analysisCache, cmp>>

MetadataNext == MetadataReturn

MetadataSpec == MetadataInit /\ [][MetadataNext]_vars

(***************************** the dashboard: one upload session *************)
\* setProgress(2) once the 100 ms wait is over
ConnectedProgress == 2

\* setProgress(5) once the upload request has been answered
UploadedProgress == 5

\* faulty variant of AfterUpload: the bar is set ahead of the server's first stages
AfterUpload_ahead(c) ==
    [c EXCEPT !.pc = "listening", !.http = "done", !.progress = 4 * UploadedProgress,
              !.sub = IF c.socket = "connected" THEN "sent" ELSE "failed"]

\* the continuation of `await apiService.uploadFile(file)`: setProgress(5), then
\* joinAnalysis, which emits 'subscribe' if the socket is connected and returns
\* false otherwise
AfterUpload(c) ==
    [c EXCEPT !.pc = "listening", !.http = "done", !.progress = UploadedProgress,
              !.sub = IF c.socket = "connected" THEN "sent" ELSE "failed"]

\* handleFileUploaded up to `await new Promise(... setTimeout(resolve, 100))`:
\* the bar is reset, connectWebSocket creates the socket and registers the callbacks.
HandleFileUploaded ==
    /\ client.pc = "idle"
    /\ client' = [client EXCEPT !.pc = "connecting", !.socket = "connecting", !.progress = 0]
    /\ UNCHANGED <<server, jobs, processingJobs, db, cache, room, files, req, analysisCache, cmp, call>>

\* the socket's 'connect' event: onConnect only logs
SocketConnect ==
    /\ client.socket = "connecting"
    /\ client' = [client EXCEPT !.socket = "connected"]
    /\ UNCHANGED <<server, jobs, processingJobs, db, cache, room, files, req, analysisCache, cmp, call>>

\* the 100 ms are over: setProgress(2), the upload request is sent
ConnectWait ==
    /\ client.pc = "connecting"
    /\ client' = [client EXCEPT !.pc = "uploading", !.progress = ConnectedProgress,
                                !.http = "request"]
    /\ UNCHANGED <<server, jobs, processingJobs, db, cache, room, files, req, analysisCache, cmp, call>>

\* the upload response has arrived and the continuation runs
UploadResponse ==
    /\ client.pc = "uploading"
    /\ client.http = "response"
    /\ client' = AfterUpload(client)
    /\ UNCHANGED <<server, jobs, processingJobs, db, cache, room, files, req, analysisCache, cmp, call>>

\* server-websocket.js, socket.on('subscribe'): the socket joins the room and
\* is sent 'subscribed'
Subscribe ==
    /\ server = "ws"
    /\ client.sub = "sent"
    /\ client' = [client EXCEPT !.sub = "joined", !.inbox = Append(@, SubscribedEvent)]
    /\ UNCHANGED <<server, jobs, processingJobs, db, cache, room, files, req, analysisCache, cmp, call>>

\* the callbacks handleFileUploaded registered, for an event of the given type
OnEvent(c, ev) ==
    CASE ev[1] = "progress" ->
             [c EXCEPT !.progress = IF ev[2] = 0 THEN 0 ELSE ev[2], !.got = Append(@, ev[2])]
      [] ev[1] = "complete" -> [c EXCEPT !.progress = ProgressDone, !.terminal = "complete"]
      [] ev[1] = "error" -> [c EXCEPT !.terminal = "error"]
      [] OTHER -> c

\* the socket receives its next event and runs the callback
SocketEvent ==
    /\ client.inbox # <<>>
    /\ client' = OnEvent([client EXCEPT !.inbox = Tail(@)], Head(client.inbox))
    /\ UNCHANGED <<server, jobs, processingJobs, db, cache, room, files, req, analysisCache, cmp, call>>

SessionInit ==
    /\ server = "ws"
    /\ Fresh
    /\ cmp = NoCompare

SessionNext ==
    \/ HandleFileUploaded
    \/ SocketConnect
    \/ ConnectWait
    \/ UploadResponse
    \/ Subscribe
    \/ SocketEvent
    \/ WsUpload
    \/ \E X \in ApiIds : WsStart(X)
    \/ \E X \in ApiIds, d \in ParserData : WsParserResponds(X, d)
    \/ \E X \in ApiIds : WsParserFails(X)
    \/ \E X \in ApiIds : WsEmitComplete(X)
    \/ \E X \in ApiIds, ok \in BOOLEAN : WsUnlink(X, ok)

SessionSpec == SessionInit /\ [][SessionNext]_vars

(***************************** properties ************************************)
Terminals(X) == room[X].complete + room[X].error

\* C1: a job started by startAsyncAnalysis gets at most one terminal event:
\* never 'complete' and 'error' both, neither twice, and no 'progress' event
\* after the terminal one.
C1_AtMostOneTerminalEvent ==
    server = "ts" =>
        \A X \in DOMAIN jobs : Terminals(X) <= 1 /\ room[X].late = 0

\* a job that went through ticks, completed and finished, next to one that failed
C1_Witness ==
    /\ server = "ts"
    /\ \E X, Z \in DOMAIN jobs :
         /\ jobs[X].pc = "done" /\ room[X].complete = 1 /\ room[X].last = ProgressDone
         /\ jobs[Z].pc = "done" /\ room[Z].error = 1 /\ room[Z].last = ProgressCap

\* C2: for one job the progress values set in the tracker and emitted as
\* 'progress' events never decrease (analyze: 0, steps of 10 up to 90, then
\* 100; websocket upload handler: 5, 15, 50, 85, 100).
C2_ProgressNeverDecreases ==
    /\ [](\A X \in DOMAIN jobs :
            /\ room[X].down = 0
            /\ room[X].last \in {-1, 5, 15, 50, 85, ProgressDone}
                                  \cup {p \in ProgressStart..ProgressCap : p % ProgressStep = 0})
    /\ [][\A Y \in DOMAIN processingJobs \cap DOMAIN processingJobs' :
            processingJobs'[Y].progress >= processingJobs[Y].progress]_vars

\* a job the interval carried to the cap before it completed with 100
C2_Witness ==
    \E X \in DOMAIN jobs :
        /\ room[X].last = ProgressDone
        /\ room[X].complete = 1
        /\ jobs[X].timer = {}
        /\ \E Z \in DOMAIN jobs : \E Y \in jobs[Z].inner :
             Y \in DOMAIN processingJobs /\ processingJobs[Y].progress = ProgressCap

\* C3: every job reaches a terminal event, also when the parser process
\* never exits (a timeout or cancellation aborts it and reports an error).
C3_EveryJobTerminates ==
    \A k \in 1..MaxJobs :
        (server = "ts" /\ ApiId(k) \in DOMAIN jobs)
            ~> (ApiId(k) \in DOMAIN jobs /\ Terminals(ApiId(k)) = 1)

\* C4: while the job started under X runs, a status request for X is answered
\* 'processing' with the progress last set for the job.
C4_RunningJobReportsProcessing ==
    (/\ server = "ts"
     /\ req.kind = "status"
     /\ req.pc = "db"
     /\ jobs[req.id].pc = "running")
        => /\ GetAnalysisStatus(req.id).status = "processing"
           /\ \A Y \in jobs[req.id].inner :
                /\ Y \in DOMAIN processingJobs
                /\ GetAnalysisStatus(req.id).progress = processingJobs[Y].progress

\* C5: once the parser process of a job has closed, the tracker holds no
\* record of the job, and no later tick puts one back.
C5_NoRecordAfterClose ==
    \A X \in DOMAIN jobs :
        jobs[X].child = "exited" =>
            /\ X \notin DOMAIN processingJobs
            /\ \A Y \in jobs[X].inner : Y \notin DOMAIN processingJobs

\* a closed job that had a record (ticks had run), next to a job whose record is still there
C5_Witness ==
    \E X, Z \in DOMAIN jobs :
        /\ jobs[X].child = "exited" /\ room[X].last >= ProgressStart + ProgressStep
        /\ jobs[X].pc = "done"
        /\ jobs[Z].child = "running" /\ SvcId(Z) \in DOMAIN processingJobs

\* C6: a stored result whose status is complete or error never changes again,
\* whatever saveAnalysis and updateAnalysisStatus calls follow.
C6_TerminalRowImmutable ==
    [][\A id \in DOMAIN db :
          db[id].status \in {"complete", "error"}
              => (id \in DOMAIN db' /\ db'[id] = db[id])]_vars

Finished(X) == jobs[X].pc = "done" /\ ~jobs[X].completeDue

Stored(X) == X \in DOMAIN db \/ X \in DOMAIN cache \/ X \in DOMAIN analysisCache

\* C7: a job that failed (parser failure, unparsable output, failed save) leaves
\* no result stored under its id; a finished job with a stored result ended
\* with 'complete'.
C7_NothingStoredForFailedJob ==
    \A X \in DOMAIN jobs :
        /\ room[X].error > 0 => ~Stored(X)
        /\ (Finished(X) /\ Stored(X)) => room[X].complete = 1

\* a job whose save failed, after the parser had succeeded
C7_Witness ==
    \E X \in DOMAIN jobs :
        /\ jobs[X].pc = "done"
        /\ room[X].last = ProgressDone
        /\ room[X].error = 1
        /\ room[X].msg = "Failed to save analysis"
        /\ ~Stored(X)

\* C8: after a job failed, a status request for its id is answered with
\* status error and the recorded message.
C8_FailedJobReportsError ==
    (/\ server = "ts"
     /\ req.kind = "status"
     /\ req.pc = "db"
     /\ jobs[req.id].pc = "done"
     /\ room[req.id].error > 0)
        => LET a == GetAnalysisStatus(req.id) IN
           \/ a.status = "error"
           \/ \E r \in a.result : r.status = "error" /\ r.error = room[req.id].msg

\* C9: a comparison of fewer than 2 inputs is rejected before any analysis is
\* run and returns no ComparisonResult; so is a comparison one of whose
\* analyses fails.
C9_TooFewOrFailedIsRejected ==
    /\ (cmp.pc # "idle" /\ cmp.files < 2)
          => (cmp.pc = "done" /\ cmp.out = "rejected" /\ cmp.started = 0
              /\ cmp.result = {} /\ DOMAIN cmp.tracker = {})
    /\ cmp.failed # 0
          => (cmp.pc = "done" /\ cmp.out = "rejected" /\ cmp.result = {})
    /\ cmp.out = "returned"
          => (cmp.files >= 2 /\ Len(cmp.analyses) = cmp.files /\ cmp.result # {})

\* compare called with exactly 1 file path
C9_Witness ==
    /\ cmp.via = "service" /\ cmp.files = 1
    /\ cmp.pc = "done" /\ cmp.out = "rejected" /\ cmp.started = 0

Largest(values) ==
    CHOOSE v \in {values[i] : i \in DOMAIN values} :
        \A i \in DOMAIN values : values[i] <= v

\* the smallest of a list of numbers
Smallest(values) ==
    CHOOSE v \in {values[i] : i \in DOMAIN values} :
        \A i \in DOMAIN values : v <= values[i]

\* C11: in the comparison of N >= 2 files, print_time and material_usage
\* have N values, the i-th being the value of the i-th file; the winner is an
\* index in 0..N-1 of a least value; when the least value is positive the
\* difference is (max - min) / min * 100.
C11_WinnerIsArgmin ==
    (cmp.pc = "done" /\ cmp.via = "function") =>
        \A c \in cmp.result :
            LET N == Len(cmp.analyses) IN
            /\ N >= 2
            /\ DOMAIN c.files = 1..N
            /\ \A i \in 1..N : c.files[i] = cmp.analyses[i].filepath
            /\ \A k \in DOMAIN c.metrics \cap {"print_time", "material_usage"} :
                 LET m == c.metrics[k] IN
                 /\ DOMAIN m.values = 1..N
                 /\ \A i \in 1..N :
                      m.values[i] = IF k = "print_time"
                                    THEN OrZero(cmp.analyses[i].time)
                                    ELSE OrZero(cmp.analyses[i].filament)
                 /\ m.winner \in 0..(N - 1)
                 /\ m.values[m.winner + 1] = Smallest(m.values)
                 /\ Smallest(m.values) > 0 =>
                      /\ m.difference.kind = "number"
                      /\ m.difference.num * Smallest(m.values) =
                           (Largest(m.values) - Smallest(m.values)) * 100 * m.difference.den

\* file A with print time 600 and file B with 900: winner 0, difference 50
C11_Witness ==
    /\ cmp.pc = "done" /\ cmp.via = "function"
    /\ Len(cmp.analyses) = 2
    /\ cmp.analyses[1].time = {600} /\ cmp.analyses[2].time = {900}
    /\ \E c \in cmp.result :
         /\ "print_time" \in DOMAIN c.metrics
         /\ c.metrics["print_time"].winner = 0
         /\ c.metrics["print_time"].difference.kind = "number"
         /\ c.metrics["print_time"].difference.num = 50 * c.metrics["print_time"].difference.den

\* C12: the difference of every metric that has a winner is a number >= 0,
\* it is 0 when all compared values are equal (all 0 included) and 0 when the
\* least value is 0.
C12_DifferenceDefined ==
    (cmp.pc = "done" /\ cmp.via = "function") =>
        \A c \in cmp.result : \A k \in DOMAIN c.metrics :
            LET m == c.metrics[k] IN
            /\ m.difference.kind = "number"
            /\ m.difference.den > 0
            /\ m.difference.num >= 0
            /\ Smallest(m.values) = Largest(m.values) => m.difference.num = 0
            /\ Smallest(m.values) = 0 => m.difference.num = 0

\* 1 when the condition holds, else 0
Bit(b) == IF b THEN 1 ELSE 0

\* C14: for an analysis whose profile defines layer_height and infill_density
\* (infill_density in 0..100), calculateQualityScore returns the clamped sum
\* 100 - 10[layer_height > 0.3] - 15[infill_density < 10] - 5[support]
\* - 10[bridging] + 5[0.15 <= layer_height <= 0.25].
C14_QualityScoreFormula ==
    (/\ call.fn = "calculateQualityScore"
     /\ call.pc = "returned"
     /\ call.arg.layer_height # {}
     /\ call.arg.infill_density # {})
        => LET lh == CHOOSE v \in call.arg.layer_height : TRUE
               inf == CHOOSE v \in call.arg.infill_density : TRUE
               sum == 100 - 10 * Bit(lh > 30) - 15 * Bit(inf < 10)
                          - 5 * Bit(call.arg.support_detected)
                          - 10 * Bit(call.arg.bridging_detected)
                          + 5 * Bit(lh >= 15 /\ lh <= 25)
           IN call.out = (IF sum < 0 THEN 0 ELSE IF sum > 100 THEN 100 ELSE sum)

\* C13: the quality_score winner is an index of a greatest score, and its
\* difference is (max - min) / min * 100, or 0 when min is 0.
C13_QualityWinnerAndDifference ==
    (cmp.pc = "done" /\ cmp.via = "function") =>
        \A c \in cmp.result : \A k \in DOMAIN c.metrics \cap {"quality_score"} :
            LET m == c.metrics[k]
                lo == Smallest(m.values)
                hi == Largest(m.values) IN
            /\ m.winner \in 0..(Len(cmp.analyses) - 1)
            /\ m.values[m.winner + 1] = hi
            /\ m.difference.kind = "number"
            /\ IF lo = 0 THEN m.difference.num = 0
               ELSE m.difference.num * lo = (hi - lo) * 100 * m.difference.den

\* a generateOptimizations call that has returned
OptReturned == call.fn = "generateOptimizations" /\ call.pc = "returned"

\* the entries of a list with the given category and title
Entries(list, category, title) ==
    {i \in 1..Len(list) : list[i].category = category /\ list[i].title = title}

\* C15: whatever the requested priority and constraints, the returned list
\* holds a Safety suggestion for exactly the safety rules whose condition
\* holds (nozzle temperature above 250, bed temperature above 100, print time
\* above 24 hours); a nozzle temperature above 250 yields a Safety suggestion
\* of impact High.
C15_SafetyAlwaysEvaluated ==
    OptReturned =>
        LET a == call.arg.analysis
            hot == \E t \in a.temperature_nozzle : t > 250
            bed == \E t \in a.temperature_bed : t > 100
            long == \E t \in a.time_estimate : t > 24 * 3600
            Safety == {i \in 1..Len(call.out) : call.out[i].category = "Safety"}
        IN /\ Cardinality(Entries(call.out, "Safety", "High Temperature Warning")) = Bit(hot)
           /\ Cardinality(Entries(call.out, "Safety", "High Bed Temperature Warning")) = Bit(bed)
           /\ Cardinality(Entries(call.out, "Safety", "Long Print Duration Warning")) = Bit(long)
           /\ Cardinality(Safety) = Bit(hot) + Bit(bed) + Bit(long)
           /\ hot => \E i \in Safety : call.out[i].impact = "High"

\* nozzle temperature 290 with priority speed and a print time limit
C15_Witness ==
    /\ OptReturned
    /\ call.arg.analysis.temperature_nozzle = {290}
    /\ call.arg.profile.priority = "speed"
    /\ call.arg.profile.maxPrintTime # {}
    /\ \E i \in 1..Len(call.out) :
         call.out[i].category = "Safety" /\ call.out[i].impact = "High"

\* the weight of an impact
Weight(impact) == IF impact = "High" THEN 3 ELSE IF impact = "Medium" THEN 2 ELSE 1

\* C16: in the returned list every suggestion of the requested priority's
\* category precedes every other suggestion, within the two groups the impact
\* weights do not increase, suggestions equal on both keys keep the order in
\* which they were generated, and the list is a permutation of the generated one.
C16_Ranked ==
    OptReturned =>
        LET L == call.out
            G == GeneratedSuggestions(call.arg.analysis, call.arg.profile)
            Match(x) == (x.category = "Speed" /\ call.arg.profile.priority = "speed")
                        \/ (x.category = "Quality" /\ call.arg.profile.priority = "quality")
                        \/ (x.category = "Material" /\ call.arg.profile.priority = "material")
            Pos(x) == CHOOSE i \in 1..Len(G) : G[i] = x
        IN /\ Len(L) = Len(G)
           /\ \A i \in 1..Len(G) : \E j \in 1..Len(L) : L[j] = G[i]
           /\ \A i, j \in 1..Len(L) : i < j =>
                /\ Match(L[j]) => Match(L[i])
                /\ Match(L[i]) = Match(L[j]) => Weight(L[i].impact) >= Weight(L[j].impact)
                /\ (Match(L[i]) = Match(L[j]) /\ L[i].impact = L[j].impact)
                      => Pos(L[i]) < Pos(L[j])

\* a list the ranking reordered: a Material suggestion of the requested
\* priority moved in front of Speed suggestions generated before it, with
\* two suggestions tied on both keys
C16_Witness ==
    /\ OptReturned
    /\ call.arg.profile.priority = "material"
    /\ Len(call.out) >= 5
    /\ call.out # GeneratedSuggestions(call.arg.analysis, call.arg.profile)
    /\ call.out[1].category = "Material"
    /\ \E i \in 1..(Len(call.out) - 1) :
         /\ call.out[i].category = "Speed" /\ call.out[i + 1].category = "Speed"
         /\ call.out[i].impact = call.out[i + 1].impact

\* C17: for an analysis with infill_density 30 and layer_height 0.1 whose
\* temperatures and print time are within bounds, the list returned for any
\* OptimizationProfile includes Speed 'Increase Layer Height' and Material
\* 'Reduce Infill Density' and no Safety suggestion.
C17_ScenarioE ==
    (/\ OptReturned
     /\ call.arg.analysis.infill_density = {30}
     /\ call.arg.analysis.layer_height = {10}
     /\ \A t \in call.arg.analysis.temperature_nozzle : t <= 250
     /\ \A t \in call.arg.analysis.temperature_bed : t <= 100
     /\ \A t \in call.arg.analysis.time_estimate : t <= 24 * 3600)
        => /\ Entries(call.out, "Speed", "Increase Layer Height") # {}
           /\ Entries(call.out, "Material", "Reduce Infill Density") # {}
           /\ \A i \in 1..Len(call.out) : call.out[i].category # "Safety"

\* C18: no two entries of a returned list have the same category and title.
C18_NoDuplicates ==
    OptReturned =>
        \A i, j \in 1..Len(call.out) :
            (call.out[i].category = call.out[j].category
             /\ call.out[i].title = call.out[j].title) => i = j

\* a list holding the Speed and the Material suggestion of the same title
C18_Witness ==
    /\ OptReturned
    /\ Entries(call.out, "Speed", "Reduce Infill Density") # {}
    /\ Entries(call.out, "Material", "Reduce Infill Density") # {}
    /\ Len(call.out) >= 8

\* the result analyzeForIssues should give when the four penalties are
\* applied as the flags say: the score, one issue per penalty, and an issue
\* of type 'error' for the temperature
IssuesAsStated(out, bridging, support, hot, thin) ==
    LET sum == 100 - 10 * Bit(bridging) - 5 * Bit(support) - 20 * Bit(hot) - 15 * Bit(thin)
        Count(category) == Cardinality({i \in 1..Len(out.issues) :
                                           out.issues[i].category = category})
    IN /\ out.score = (IF sum < 0 THEN 0 ELSE sum)
       /\ Len(out.issues) = Bit(bridging) + Bit(support) + Bit(hot) + Bit(thin)
       /\ Count("Bridging") = Bit(bridging)
       /\ Count("Supports") = Bit(support)
       /\ Count("Temperature") = Bit(hot)
       /\ Count("Layer Height") = Bit(thin)
       /\ hot => \E i \in 1..Len(out.issues) :
                    out.issues[i].type = "error" /\ out.issues[i].category = "Temperature"

\* C19 as stated: analyzeForIssues returns score = max(0, 100 - 10[bridging]
\* - 5[support] - 20[nozzle temperature > 280] - 15[layer_height < 0.1]) with
\* one issue per applied penalty, for every analysis.
C19_IssueScoreAsStated ==
    (call.fn = "analyzeForIssues" /\ call.pc = "returned") =>
        IssuesAsStated(call.out, call.arg.bridging_detected, call.arg.support_detected,
                       \E t \in call.arg.temperature_nozzle : t > 280,
                       \E h \in call.arg.layer_height : h < 10)

\* C19, amended: the same for every analysis whose layer_height is absent
\* or positive; a layer_height of 0 counts as not given and gets no penalty.
C19_IssueScore ==
    (/\ call.fn = "analyzeForIssues" /\ call.pc = "returned"
     /\ \A h \in call.arg.layer_height : h > 0) =>
        IssuesAsStated(call.out, call.arg.bridging_detected, call.arg.support_detected,
                       \E t \in call.arg.temperature_nozzle : t > 280,
                       \E h \in call.arg.layer_height : h < 10)

\* nozzle temperature 290 beside thin layers, bridging and supports: score 50
C19_Witness ==
    /\ call.fn = "analyzeForIssues" /\ call.pc = "returned"
    /\ call.arg.temperature_nozzle = {290}
    /\ call.arg.layer_height = {5}
    /\ call.arg.bridging_detected /\ call.arg.support_detected
    /\ call.out.score = 50
    /\ Len(call.out.issues) = 4

\* C20: parseGCodeCommand returns null exactly for the lines that, blanks
\* in front left aside, do not start with one of G, M, T, F followed by a
\* digit (blank lines and pure-comment lines among them); for a written
\* command it returns the type, the code, every letter with its number and the
\* comment text.
C20_ParseGCodeCommand ==
    (call.fn = "parseGCodeCommand" /\ call.pc = "returned") =>
        LET line == call.arg.line IN
        /\ call.out = {} <=>
             ~\E i \in 1..(Len(line) - 1) :
                 /\ \A j \in 1..(i - 1) : line[j] = " "
                 /\ line[i] \in {"G", "M", "T", "F"}
                 /\ line[i + 1] \in Digits
        /\ \A c \in call.out : c.lineNumber = call.arg.lineNumber
        /\ \A m \in call.arg.meant :
             call.out = {[type |-> m.type, code |-> m.code, params |-> m.params,
                          comment |-> m.comment, lineNumber |-> call.arg.lineNumber]}

\* 'G1 X10 Y20 F3000' gives type G, code 1, X = 10, Y = 20, F = 3000
C20_Witness ==
    /\ call.fn = "parseGCodeCommand" /\ call.pc = "returned"
    /\ call.arg.line = <<"G", "1", " ", "X", "1", "0", " ", "Y", "2", "0", " ",
                         "F", "3", "0", "0", "0">>
    /\ \E c \in call.out :
         /\ c.type = "G" /\ c.code = Number(FALSE, 1, 0)
         /\ DOMAIN c.params = {"X", "Y", "F"}
         /\ c.params["X"] = Number(FALSE, 10, 0)
         /\ c.params["Y"] = Number(FALSE, 20, 0)
         /\ c.params["F"] = Number(FALSE, 3000, 0)
         /\ c.comment = {}

\* two heights less than the tolerance of 0.001 mm apart
Near(z1, z2) == z1 - z2 < 10 /\ z2 - z1 < 10

\* the lines of a stream that are moves, in order
Moves(lines) == SelectSeq(lines, LAMBDA l : l.kind = "move")

\* the moves form a block at z1 followed by a block at z2: the first move
\* of each block names the height, the others name no Z or a Z within the
\* tolerance of it
TwoBlocks(moves, z1, z2) ==
    \E k \in 2..Len(moves) :
        /\ moves[1].z = {z1}
        /\ moves[k].z = {z2}
        /\ \A i \in 2..(k - 1) : \A z \in moves[i].z : Near(z, z1)
        /\ \A i \in (k + 1)..Len(moves) : \A z \in moves[i].z : Near(z, z2)

\* C21: a stream of two blocks of moves, at z1 and then at z2, gives
\* exactly 2 layers with z = z1 and z = z2 in this order; a later move that
\* repeats the Z or changes it by less than the tolerance starts no layer.
C21_TwoBlocksTwoLayers ==
    (call.fn = "parseGCode" /\ call.pc = "returned") =>
        \A z1, z2 \in {2000, 4000} :
            (z1 # z2 /\ TwoBlocks(Moves(call.arg), z1, z2))
                => /\ Len(call.out) = 2
                   /\ call.out[1].z = z1
                   /\ call.out[2].z = z2

\* C22: the z values of the layers are non-decreasing from the first layer
\* to the last, whatever the stream.
C22_LayerZNonDecreasing ==
    (call.fn = "parseGCode" /\ call.pc = "returned") =>
        \A i, j \in 1..Len(call.out) : i < j => call.out[i].z <= call.out[j].z

\* the value a field of the metadata must have: the reported one if the parser
\* reported one, the fallback constant otherwise
Reported(opt, d) == IF opt = {} THEN d ELSE CHOOSE v \in opt : TRUE

\* C23: in the emitted result every metadata field has a concrete value, and a
\* value the parser reported is never replaced by the fallback constant, a
\* reported 0 or false included.
C23_ReportedValueWins ==
    (call.fn = "formatMetadata" /\ call.pc = "returned") =>
        /\ call.out.slicer = Reported(call.arg.slicer_name, Fallback.slicer)
        /\ call.out.layerHeight = Reported(call.arg.layer_height, Fallback.layerHeight)
        /\ call.out.bedTemperature = Reported(call.arg.temperature_bed, Fallback.bedTemperature)
        /\ call.out.infillDensity = Reported(call.arg.infill_density, Fallback.infillDensity)
        /\ call.out.supportEnabled = Reported(call.arg.support_enabled, Fallback.supportEnabled)
        /\ call.out.wallCount = Reported(call.arg.wall_count, Fallback.wallCount)

\* C24: a client that subscribes as soon as it has the analysis id receives
\* every progress event and the terminal event: the server emits no event of
\* the upload before the client's subscription is registered.
C24_NothingEmittedBeforeSubscription ==
    client.missed = 0

\* C30: during one upload session the value of the dashboard's progress bar
\* never decreases, however the upload continuation and the socket's callbacks
\* interleave.
C30_ProgressBarMonotone ==
    [][client'.progress >= client.progress]_vars

C30_Witness ==
    /\ client.terminal = "complete"
    /\ client.got = <<5, 15, 50, 85, ProgressDone>>
    /\ client.progress = ProgressDone

\* the progress values the server emitted to the room of the dashboard's
\* upload, in order, as a socket that was in the room all along has them:
\* those the callback got, then those on their way
Sent ==
    client.got \o [i \in 1..Len(SelectSeq(client.inbox, LAMBDA e : e[1] = "progress")) |->
                      SelectSeq(client.inbox, LAMBDA e : e[1] = "progress")[i][2]]

Stages == <<5, 15, 50, 85, ProgressDone>>

IsPrefix(s, t) == Len(s) <= Len(t) /\ \A i \in 1..Len(s) : s[i] = t[i]

\* the timeout callback of upload X has left its try/catch
Handled(X) == jobs[X].pc \in {"unlinking", "done"}

\* C25 (as stated): once the parser request has succeeded (progress 50 is
\* emitted right after it), the upload ends with 85, 100 and 'complete', never
\* with 'error'.
C25_SuccessThenComplete ==
    \A X \in DOMAIN jobs :
        (server = "ws" /\ client.id = X /\ client.missed = 0 /\ Handled(X) /\ 50 \in {Sent[i] : i \in 1..Len(Sent)})
            => /\ Sent = Stages
               /\ room[X].error = 0

\* C25 (amended): the websocket server emits the progress values in the order
\* 5, 15, 50, 85, 100; for a parser answer that can be formatted it emits all
\* of them and then exactly one 'complete', its result being stored; if the
\* request fails or the answer cannot be formatted it emits exactly one 'error'
\* and neither progress 100 nor 'complete'.
C25_StagesThenOneTerminal ==
    \A X \in DOMAIN jobs :
        (server = "ws" /\ client.id = X /\ client.missed = 0) =>
            /\ IsPrefix(Sent, Stages)
            /\ room[X].complete + room[X].error <= 1
            /\ room[X].complete = 1 => Sent = Stages /\ X \in DOMAIN analysisCache
            /\ Handled(X) =>
                 IF X \in DOMAIN analysisCache
                 THEN /\ Sent = Stages
                      /\ room[X].error = 0
                      /\ room[X].complete = 1 \/ jobs[X].completeDue
                 ELSE /\ room[X].error = 1
                      /\ room[X].complete = 0
                      /\ ~jobs[X].completeDue
                      /\ Sent \in {<<5, 15>>, <<5, 15, 50>>}

C25_Witness ==
    /\ server = "ws"
    /\ client.id \in DOMAIN jobs
    /\ client.missed = 0
    /\ Sent = Stages
    /\ room[client.id].complete = 1
    /\ room[client.id].error = 0

\* the record of the tracker under key Y, as a set of at most one record
RecordOf(pj, Y) == IF Y \in DOMAIN pj THEN {pj[Y]} ELSE {}

\* what the analyze call of job X has written last: the starting record
\* before the first tick, afterwards the progress of its own interval
Written(X) ==
    {[progress |-> 0, stage |-> "starting"] : p \in jobs[X].timer \cap {ProgressStart}}
        \cup {[progress |-> p, stage |-> "analyzing"] : p \in jobs[X].timer}

\* C26: the progress records of different jobs are independent: a step sets or
\* removes the record of at most one job and leaves every other record as it
\* was, and a read for a job returns only what that job's analyze call wrote.
C26_RecordsIndependent ==
    [][/\ \A Y1, Y2 \in DOMAIN processingJobs \cup DOMAIN processingJobs' :
             (/\ RecordOf(processingJobs, Y1) # RecordOf(processingJobs', Y1)
              /\ RecordOf(processingJobs, Y2) # RecordOf(processingJobs', Y2)) => Y1 = Y2
       /\ \A X \in DOMAIN jobs' :
             RecordOf(processingJobs', SvcId(X)) \subseteq Written(X)'
      ]_vars

C26_Witness ==
    \E X1, X2 \in DOMAIN jobs :
        /\ SvcId(X1) \in DOMAIN processingJobs
        /\ SvcId(X2) \in DOMAIN processingJobs
        /\ processingJobs[SvcId(X1)].progress > processingJobs[SvcId(X2)].progress
        /\ processingJobs[SvcId(X2)].progress > 0

\* the step in which GET /api/analysis/:id of server.ts answers 404
NotFoundReply ==
    /\ req.kind = "get"
    /\ req.pc = "db"
    /\ req' = Idle

\* C27: persist before notify: once 'complete' has been emitted for an id the
\* result is stored (server.ts: in the database; server-websocket.js: in
\* analysisCache), and GET /api/analysis/:id for that id never answers 404.
C27_PersistBeforeNotify ==
    [][/\ \A X \in DOMAIN jobs' :
             room'[X].complete > 0 =>
                 IF server' = "ts" THEN X \in DOMAIN db' ELSE WsGetAnalysis(X)' # {}
       /\ NotFoundReply => room[req.id].complete = 0
      ]_vars

\* 'complete' was emitted, the cache write had failed, and a GET for the id
\* has reached the database
C27_Witness ==
    /\ req.kind = "get"
    /\ req.pc = "db"
    /\ req.id \in DOMAIN jobs
    /\ room[req.id].complete = 1
    /\ req.id \notin DOMAIN cache

\* C28: GET /api/analysis/:id returns the same result from the cache as from
\* the database, and the id field of the result is the requested id.
C28_CacheEqualsDatabase ==
    \A X \in DOMAIN cache :
        /\ cache[X].id = X
        /\ X \in DOMAIN db => cache[X] = db[X]

\* C29: the input file of a job started by startAsyncAnalysis is removed once
\* the job has reached a terminal state, after 'complete' as well as after
\* 'error'.
C29_InputFileRemoved ==
    server = "ts" =>
        \A X \in DOMAIN jobs :
            (jobs[X].pc = "done" /\ Terminals(X) > 0) => FilePath(X) \notin files

====
